---- MODULE Spec2Model ----
(***************************************************************************)
(* Triage session of the photo sorter front end (src/static/app.js, the    *)
(* four-way variant with filter, lines 1-364): master list, filtered view, *)
(* cursor, undo history, export, manifest (re)load, controller polling and *)
(* the map panel.                                                          *)
(*                                                                         *)
(* Objects are modelled by reference: the view `images` holds positions    *)
(* (1-based) into `allItems`, because applyFilter fills the view with the  *)
(* very objects of the master list.  `currentIndex` and the `index` field  *)
(* of history entries are 0-based as in the code.                          *)
(*                                                                         *)
(* Each handler runs to completion (single-threaded event loop); an await  *)
(* splits a handler into the step that issues the request and the step     *)
(* that runs when the request settles.                                     *)
(***************************************************************************)
EXTENDS Integers, Sequences, FiniteSets, TLC

VARIABLES
  allItems,       \* app.js:14  master list, Seq of item records
  images,         \* app.js:15  active view, Seq of positions into allItems
  currentIndex,   \* app.js:16  cursor, 0-based index into images
  history,        \* app.js:17  undo stack, Seq of [index, prev]
  filterValue,    \* filterSelect.value
  exportDisabled, \* exportBtn.disabled
  saveReq,        \* the pending POST /save-decisions and its body
  rebuildDisabled,\* rebuildBtn.disabled
  rebuildStage,   \* where the rebuild click handler is suspended
  startLoad,      \* TRUE while the startup loadManifest() awaits its fetch
  uncaught,       \* the handler that ran last ended in an uncaught TypeError
  lastEvent,      \* history variable: the command that ran last
  lastSet,        \* history variable: the setStatus call that ran last, if any
  trip,           \* history variable: filter round trip all -> m -> all
  law,            \* history variable: n setStatus calls, then undo calls
  owner,          \* history variable: owner[k] is the item history[k] was pushed for
  pre,            \* history variable: cursor, stack and view before the last command
  gamepadIndex,   \* app.js:21  index of the controller that is polled, or null
  lastButtonStates, \* app.js:22  pressed state of each button at the last sample
  pollLoops,      \* number of pollGamepad loops that re-request a frame
  pads,           \* navigator.getGamepads(): the connected controllers and their buttons
  seen,           \* history variable: per controller, its buttons at its last sample
  issued,         \* history variable: the buttons the last sample called a command for
  leaflet,        \* app.js:98  typeof L !== "undefined": the map library is loaded
  mapUi,          \* app.js:18-19, 7-9  map, marker, #map, #mapMessage, #gpsStatus
  shownFor,       \* history variable: the image updateMap ran for last
  delivered       \* history variable: data.images of the last successful load

core == <<allItems, images, currentIndex, history, filterValue>>
net  == <<exportDisabled, saveReq, rebuildDisabled, rebuildStage, startLoad>>
Ghosts == <<lastSet, trip, law, owner, pre>>
pad  == <<gamepadIndex, lastButtonStates, pollLoops, pads, seen, issued>>
show == <<leaflet, mapUi, shownFor>>
vars == <<allItems, images, currentIndex, history, filterValue,
          exportDisabled, saveReq, rebuildDisabled, rebuildStage, startLoad,
          uncaught, lastEvent, lastSet, trip, law, owner, pre,
          gamepadIndex, lastButtonStates, pollLoops, pads, seen, issued,
          leaflet, mapUi, shownFor, delivered>>

----------------------------------------------------------------------------
(* Bounds *)
MaxItems   == 2      \* longest manifest delivered by the server
MaxDate    == 1      \* dateTaken values 1..MaxDate, 0 stands for null
MaxHistory == 2      \* cap on the undo stack length
MaxCalls   == 2      \* longest run of setStatus calls followed by `law`
MaxLoops   == 2      \* most gamepadconnected events, each starting a polling loop
MaxCoord   == 1      \* lat and lon range over null and 0..MaxCoord

(* Values of the program *)
Null    == "null"
Actions == {"favorite", "like", "later", "delete"}
Status  == Actions \cup {Null}
Modes   == {"all", "image", "video"}
\* what the user presses in the model: two of the four dispositions
Clicked == {"like", "delete"}     \* data-action of the decision buttons clicked
Keys    == {"2", "4"}             \* digit keys pressed
Buttons == {0, 1}                 \* controller face buttons pressed
Types   == {"image", "video"}
NoReq   == [pending |-> FALSE, decisions |-> <<>>]
NoCall  == [item |-> 0, action |-> Null, before |-> Null, len |-> 0, repeat |-> FALSE]
NoTrip  == [item |-> 0, stage |-> 0, kept |-> FALSE]
LawOff  == [phase |-> "off", calls |-> 0, owed |-> 0]
NoPre   == [cursor |-> 0, len |-> 0, view |-> 0]
Undefined == 0       \* images[i] out of range / an object of an older list

----------------------------------------------------------------------------
(* Manifest entries as delivered by GET /api/images: filename is unique.   *)
(* The session reads dateTaken only to order the master list, so the kinds *)
(* range over every sequence while the dates follow one pattern that makes *)
(* the sort reorder entries and meet null: null, 1, .., MaxDate, null, ... *)
Entry(n, t, d) == [filename |-> n, type |-> t, dateTaken |-> d]

DateOf(i) == (i - 1) % (MaxDate + 1)

Manifests ==
  UNION { { [i \in 1..n |-> Entry(i, ts[i], DateOf(i))] : ts \in [1..n -> Types] } :
          n \in 0..MaxItems }

\* url, lat, lon and originalDate are copied through and read by no command
\* of the session; a missing type ("") becomes "image"
normalizeEntry(entry) ==
  [name |-> entry.filename, status |-> Null,
   dateTaken |-> entry.dateTaken,
   type |-> IF entry.type = "" THEN "image" ELSE entry.type]

(* Array.prototype.sort is stable; the comparator orders by dateTaken      *)
(* descending, null counting as the empty string (smallest).               *)
RECURSIVE InsertSorted(_, _)
InsertSorted(s, x) ==
  IF s = <<>> THEN <<x>>
  ELSE IF Head(s).dateTaken >= x.dateTaken
       THEN <<Head(s)>> \o InsertSorted(Tail(s), x)
       ELSE <<x>> \o s

RECURSIVE SortByDate(_)
SortByDate(s) ==
  IF s = <<>> THEN <<>>
  ELSE InsertSorted(SortByDate(SubSeq(s, 1, Len(s) - 1)), s[Len(s)])

----------------------------------------------------------------------------
(* applyFilter *)
\* faulty variant: `image` selects the items whose type is "image"
MatchesStrict(mode, item) ==
  IF mode = "image" THEN item.type = "image"
  ELSE IF mode = "video" THEN item.type = "video"
  ELSE TRUE

\* faulty variant: the `image` branch is missing, so `image` shows everything
MatchesLoose(mode, item) ==
  IF mode = "video" THEN item.type = "video" ELSE TRUE

Matches(mode, item) ==
  IF mode = "image" THEN item.type # "video"
  ELSE IF mode = "video" THEN item.type = "video"
  ELSE TRUE

RECURSIVE FilterFrom(_, _, _)
FilterFrom(mode, items, i) ==
  IF i > Len(items) THEN <<>>
  ELSE (IF Matches(mode, items[i]) THEN <<i>> ELSE <<>>)
       \o FilterFrom(mode, items, i + 1)

FilterView(mode, items) == FilterFrom(mode, items, 1)

\* images.indexOf(obj): 0-based, -1 when absent
IndexOf(view, obj) ==
  IF \E k \in 1..Len(view) : view[k] = obj
  THEN (CHOOSE k \in 1..Len(view) : view[k] = obj) - 1
  ELSE -1

\* images[i] for a 0-based i
At(view, i) == IF i >= 0 /\ i < Len(view) THEN view[i + 1] ELSE Undefined

\* faulty variant: a previous item that is gone leaves the cursor where it was
FilterCursorKeep(mode, items, cur, previousItem) ==
  LET view == FilterView(mode, items)
      idx  == IF previousItem # Undefined THEN IndexOf(view, previousItem) ELSE -1
  IN  IF idx >= 0 THEN idx ELSE cur

\* faulty variant: every filter change puts the cursor on the first item
FilterCursorReset(mode, items, cur, previousItem) ==
  IF Len(FilterView(mode, items)) = 0 THEN cur ELSE 0

\* result of applyFilter(mode) on master list `items`, with `previousItem`
\* read from the old view at the old cursor `cur`
FilterCursor(mode, items, cur, previousItem) ==
  LET view == FilterView(mode, items)
      idx  == IF previousItem # Undefined THEN IndexOf(view, previousItem) ELSE -1
  IN  IF Len(view) = 0 THEN cur
      ELSE IF idx >= 0 THEN idx ELSE 0

applyFilter(mode) ==
  /\ images' = FilterView(mode, allItems)
  /\ currentIndex' = FilterCursor(mode, allItems, currentIndex, At(images, currentIndex))

----------------------------------------------------------------------------
(* Session commands *)
SetStatusOf(items, pos, s) == [items EXCEPT ![pos].status = s]

\* faulty variant: past the last position the cursor starts over at the first
nextWrap ==
  /\ currentIndex' = IF currentIndex < Len(images) - 1 THEN currentIndex + 1 ELSE 0

next ==
  /\ currentIndex' = IF currentIndex < Len(images) - 1 THEN currentIndex + 1 ELSE currentIndex

prev ==
  /\ currentIndex' = IF currentIndex > 0 THEN currentIndex - 1 ELSE currentIndex

\* faulty variant: the comparison with the current disposition is missing
setStatusAlwaysPush(action) ==
  IF Len(images) = 0
  THEN UNCHANGED <<allItems, images, currentIndex, history>>
  ELSE LET img == images[currentIndex + 1]
           prv == allItems[img].status
       IN  /\ allItems' = SetStatusOf(allItems, img, action)
           /\ history' = Append(history, [index |-> currentIndex, prev |-> prv])
           /\ next
           /\ UNCHANGED images

\* faulty variant: a call that finds the disposition already set does not advance
setStatusStay(action) ==
  IF Len(images) = 0
  THEN UNCHANGED <<allItems, images, currentIndex, history>>
  ELSE LET img == images[currentIndex + 1]
           prv == allItems[img].status
       IN  /\ IF prv # action
              THEN /\ allItems' = SetStatusOf(allItems, img, action)
                   /\ history' = Append(history, [index |-> currentIndex, prev |-> prv])
                   /\ next
              ELSE UNCHANGED <<allItems, history, currentIndex>>
           /\ UNCHANGED images

setStatus(action) ==
  IF Len(images) = 0
  THEN UNCHANGED <<allItems, images, currentIndex, history>>
  ELSE LET img == images[currentIndex + 1]
           prv == allItems[img].status
       IN  /\ IF prv # action
              THEN /\ allItems' = SetStatusOf(allItems, img, action)
                   /\ history' = Append(history, [index |-> currentIndex, prev |-> prv])
              ELSE UNCHANGED <<allItems, history>>
           /\ next
           /\ UNCHANGED images

\* faulty variant: the entry is popped and the cursor moved, the disposition stays
UndoStepNoRestore(items, view, cur, h) ==
  LET last == h[Len(h)]
      img  == At(view, last.index)
  IN  [history |-> SubSeq(h, 1, Len(h) - 1),
       allItems |-> items,
       currentIndex |-> IF img = Undefined THEN cur ELSE last.index,
       threw |-> img = Undefined]

\* One undo() on a non-empty stack `h`: history.pop(), then
\* images[last.index].status = last.prev throws a TypeError when the view has
\* no element at last.index; the entry is gone and nothing else has changed.
UndoStep(items, view, cur, h) ==
  LET last == h[Len(h)]
      img  == At(view, last.index)
  IN  [history |-> SubSeq(h, 1, Len(h) - 1),
       allItems |-> IF img = Undefined THEN items
                    ELSE SetStatusOf(items, img, last.prev),
       currentIndex |-> IF img = Undefined THEN cur ELSE last.index,
       threw |-> img = Undefined]

\* faulty variant: the test of the popped entry is missing, so reading
\* last.index of undefined throws
undoNoCheck ==
  IF history = <<>>
  THEN /\ UNCHANGED <<allItems, images, currentIndex, history>>
       /\ uncaught' = TRUE
  ELSE LET r == UndoStep(allItems, images, currentIndex, history)
       IN  /\ history' = r.history
           /\ allItems' = r.allItems
           /\ currentIndex' = r.currentIndex
           /\ uncaught' = r.threw
           /\ UNCHANGED images

undo ==
  IF history = <<>>
  THEN /\ UNCHANGED <<allItems, images, currentIndex, history>>
       /\ uncaught' = FALSE
  ELSE LET r == UndoStep(allItems, images, currentIndex, history)
       IN  /\ history' = r.history
           /\ allItems' = r.allItems
           /\ currentIndex' = r.currentIndex
           /\ uncaught' = r.threw
           /\ UNCHANGED images

----------------------------------------------------------------------------
(* Event handlers *)
\* the stack cap only stops calls that would push beyond MaxHistory
CanSet(action) ==
  IF Len(history) < MaxHistory \/ Len(images) = 0 THEN TRUE
  ELSE allItems[images[currentIndex + 1]].status = action

\* app.js:212  click on a decision button
decisionClick ==
  \E action \in Clicked :
    /\ CanSet(action)
    /\ setStatus(action)
    /\ uncaught' = FALSE
    /\ lastEvent' = "setStatus"
    /\ UNCHANGED <<filterValue, net>>

KeyAction(key) ==
  CASE key = "1" -> "favorite" [] key = "2" -> "like"
    [] key = "3" -> "later"    [] key = "4" -> "delete"

\* the commands a key can run
KeyCommands ==
  \/ \E key \in Keys :
       /\ CanSet(KeyAction(key))
       /\ setStatus(KeyAction(key))
       /\ uncaught' = FALSE
       /\ lastEvent' = "setStatus"
  \/ /\ next
     /\ UNCHANGED <<allItems, images, history>>
     /\ uncaught' = FALSE
     /\ lastEvent' = "next"
  \/ /\ prev
     /\ UNCHANGED <<allItems, images, history>>
     /\ uncaught' = FALSE
     /\ lastEvent' = "prev"
  \/ /\ undo
     /\ lastEvent' = "undo"

\* faulty variant: the test of the view is missing
keydownUnguarded ==
  /\ UNCHANGED <<filterValue, net>>
  /\ KeyCommands

\* faulty variant: keys are dropped while a request of the page is pending
keydownWhenIdle ==
  /\ ~exportDisabled /\ ~rebuildDisabled /\ ~startLoad
  /\ UNCHANGED <<filterValue, net>>
  /\ IF Len(images) = 0
     THEN /\ UNCHANGED <<allItems, images, currentIndex, history>>
          /\ uncaught' = FALSE
          /\ lastEvent' = "keyIgnored"
     ELSE KeyCommands

\* app.js:218  keydown; every key is ignored while the view is empty
keydown ==
  /\ UNCHANGED <<filterValue, net>>
  /\ IF Len(images) = 0
     THEN /\ UNCHANGED <<allItems, images, currentIndex, history>>
          /\ uncaught' = FALSE
          /\ lastEvent' = "keyIgnored"
     ELSE KeyCommands

PadAction(index) ==
  CASE index = 0 -> "like"  [] index = 1 -> "delete"
    [] index = 2 -> "later" [] index = 3 -> "favorite"

\* app.js:335  a new press of controller button `index`
handleGamepadButton ==
  /\ UNCHANGED <<filterValue, net>>
  /\ uncaught' = FALSE
  /\ \/ \E index \in Buttons :
          /\ CanSet(PadAction(index))
          /\ setStatus(PadAction(index))
          /\ lastEvent' = "setStatus"
     \/ /\ next
        /\ UNCHANGED <<allItems, images, history>>
        /\ lastEvent' = "next"
     \/ /\ prev
        /\ UNCHANGED <<allItems, images, history>>
        /\ lastEvent' = "prev"

\* faulty variant: a filter change starts the undo stack over
filterChangeClearsHistory ==
  \E mode \in Modes \ {filterValue} :
    /\ filterValue' = mode
    /\ applyFilter(mode)
    /\ history' = <<>>
    /\ uncaught' = FALSE
    /\ lastEvent' = "filter"
    /\ UNCHANGED <<allItems, net>>

\* app.js:303  the select fires `change` when another option is chosen
filterChange ==
  \E mode \in Modes \ {filterValue} :
    /\ filterValue' = mode
    /\ applyFilter(mode)
    /\ uncaught' = FALSE
    /\ lastEvent' = "filter"
    /\ UNCHANGED <<allItems, history, net>>

----------------------------------------------------------------------------
(* Export *)
DecisionRecord(items, idx) ==
  [index |-> idx - 1, name |-> items[idx].name, status |-> items[idx].status,
   dateTaken |-> items[idx].dateTaken, type |-> items[idx].type]

\* faulty variant: the records are built from the active view
PayloadOfView(items) ==
  [k \in 1..Len(images) |->
     [DecisionRecord(items, images[k]) EXCEPT !.index = k - 1]]

Payload(items) == [idx \in 1..Len(items) |-> DecisionRecord(items, idx)]

\* app.js:250  a disabled button receives no click
exportClick ==
  /\ ~exportDisabled
  /\ IF Len(images) = 0
     THEN UNCHANGED <<exportDisabled, saveReq>>
     ELSE /\ saveReq' = [pending |-> TRUE, decisions |-> Payload(allItems)]
          /\ exportDisabled' = TRUE
  /\ uncaught' = FALSE
  /\ lastEvent' = "export"
  /\ UNCHANGED <<core, rebuildDisabled, rebuildStage, startLoad>>

\* faulty variant: without the finally block a failure leaves the control disabled
exportResponseStuck ==
  /\ saveReq.pending
  /\ saveReq' = NoReq
  /\ \E ok \in BOOLEAN :
       /\ lastEvent' = IF ok THEN "exportOk" ELSE "exportFail"
       /\ exportDisabled' = ~ok
  /\ uncaught' = FALSE
  /\ UNCHANGED <<core, rebuildDisabled, rebuildStage, startLoad>>

\* app.js:265-281  the POST settles: ok, or a network error / non-OK status
exportResponse ==
  /\ saveReq.pending
  /\ \E ok \in BOOLEAN : lastEvent' = IF ok THEN "exportOk" ELSE "exportFail"
  /\ saveReq' = NoReq
  /\ exportDisabled' = FALSE
  /\ uncaught' = FALSE
  /\ UNCHANGED <<core, rebuildDisabled, rebuildStage, startLoad>>

----------------------------------------------------------------------------
(* Manifest load and rebuild *)
\* faulty variant: the session is emptied before the response is examined
loadManifestClearsFirst(ok, manifest) ==
  IF ok
  THEN LET items == SortByDate([i \in 1..Len(manifest) |-> normalizeEntry(manifest[i])])
           mode  == filterValue
       IN  /\ allItems' = items
           /\ history' = <<>>
           /\ images' = FilterView(mode, items)
           /\ currentIndex' = FilterCursor(mode, items, 0, Undefined)
           /\ UNCHANGED filterValue
           /\ lastEvent' = "loadOk"
  ELSE /\ allItems' = <<>>
       /\ images' = <<>>
       /\ history' = <<>>
       /\ currentIndex' = 0
       /\ UNCHANGED filterValue
       /\ lastEvent' = "loadFail"

\* faulty variant: the view is not rebuilt from the new master list
loadManifestStale(ok, manifest) ==
  IF ok
  THEN /\ allItems' = SortByDate([i \in 1..Len(manifest) |-> normalizeEntry(manifest[i])])
       /\ history' = <<>>
       /\ currentIndex' = 0
       /\ UNCHANGED <<images, filterValue>>
       /\ lastEvent' = "loadOk"
  ELSE /\ UNCHANGED core
       /\ lastEvent' = "loadFail"

\* app.js:60-75; on success the old view still holds objects of the old
\* master list when applyFilter reads previousItem, so indexOf finds nothing
loadManifest(ok, manifest) ==
  IF ok
  THEN LET items == SortByDate([i \in 1..Len(manifest) |-> normalizeEntry(manifest[i])])
           mode  == filterValue
       IN  /\ allItems' = items
           /\ history' = <<>>
           /\ images' = FilterView(mode, items)
           /\ currentIndex' = FilterCursor(mode, items, 0, Undefined)
           /\ UNCHANGED filterValue
           /\ lastEvent' = "loadOk"
  ELSE /\ UNCHANGED core
       /\ lastEvent' = "loadFail"

\* app.js:363  the startup load settles
startupLoadResponse ==
  /\ startLoad
  /\ startLoad' = FALSE
  /\ \E ok \in BOOLEAN, manifest \in Manifests : loadManifest(ok, manifest)
  /\ uncaught' = FALSE
  /\ UNCHANGED <<exportDisabled, saveReq, rebuildDisabled, rebuildStage>>

\* faulty variant: the control stays enabled while the request is pending
rebuildClickNoDisable ==
  /\ ~rebuildDisabled
  /\ UNCHANGED rebuildDisabled
  /\ rebuildStage' = "rebuild"
  /\ uncaught' = FALSE
  /\ lastEvent' = "rebuild"
  /\ UNCHANGED <<core, exportDisabled, saveReq, startLoad>>

\* Manifests whose entries arrive in any order of filename, with any date
\* and any type: the two kinds, none ("") and one the page does not know
AnyTypes == Types \cup {"", "raw"}

Shuffled ==
  UNION { { m \in [1..n -> [filename : 1..MaxItems, type : AnyTypes, dateTaken : 0..MaxDate]] :
              \A i, j \in 1..n : i # j => m[i].filename # m[j].filename } :
          n \in 0..MaxItems }

\* app.js:363  the startup load settles on a manifest in any order
startupLoadShuffled ==
  /\ startLoad
  /\ startLoad' = FALSE
  /\ \E ok \in BOOLEAN, manifest \in Shuffled :
       /\ loadManifest(ok, manifest)
       /\ delivered' = IF ok THEN manifest ELSE delivered
  /\ uncaught' = FALSE
  /\ UNCHANGED <<exportDisabled, saveReq, rebuildDisabled, rebuildStage>>

\* app.js:284-286
rebuildClick ==
  /\ ~rebuildDisabled
  /\ rebuildDisabled' = TRUE
  /\ rebuildStage' = "rebuild"
  /\ uncaught' = FALSE
  /\ lastEvent' = "rebuild"
  /\ UNCHANGED <<core, exportDisabled, saveReq, startLoad>>

\* app.js:288-300  POST /api/rebuild-manifest settles
rebuildResponse ==
  /\ rebuildStage = "rebuild"
  /\ \E ok \in BOOLEAN :
       IF ok
       THEN /\ rebuildStage' = "load"
            /\ UNCHANGED rebuildDisabled
            /\ lastEvent' = "rebuildOk"
       ELSE /\ rebuildStage' = "idle"
            /\ rebuildDisabled' = FALSE
            /\ lastEvent' = "rebuildFail"
  /\ uncaught' = FALSE
  /\ UNCHANGED <<core, exportDisabled, saveReq, startLoad>>

\* app.js:294-300  the load awaited by the rebuild handler settles
rebuildLoadResponse ==
  /\ rebuildStage = "load"
  /\ rebuildStage' = "idle"
  /\ rebuildDisabled' = FALSE
  /\ \E ok \in BOOLEAN, manifest \in Manifests : loadManifest(ok, manifest)
  /\ uncaught' = FALSE
  /\ UNCHANGED <<exportDisabled, saveReq, startLoad>>

----------------------------------------------------------------------------
(* Controller polling *)
NoPad     == -1                       \* gamepadIndex = null
Pads      == {0, 1}                   \* e.gamepad.index of the controllers
Polled    == <<0, 15>>                \* the buttons sampled in the model, in forEach order
PolledSet == {Polled[k] : k \in 1..Len(Polled)}
AllUp     == [b \in PolledSet |-> FALSE]   \* lastButtonStates = []
Unplugged == [connected |-> FALSE, buttons |-> AllUp]

\* the commands as functions of the session s = [allItems, images,
\* currentIndex, history], for a handler that runs several of them
nextOn(s) ==
  [s EXCEPT !.currentIndex = IF @ < Len(s.images) - 1 THEN @ + 1 ELSE @]

prevOn(s) ==
  [s EXCEPT !.currentIndex = IF @ > 0 THEN @ - 1 ELSE @]

setStatusOn(s, action) ==
  IF Len(s.images) = 0 THEN s
  ELSE LET img == s.images[s.currentIndex + 1]
           prv == s.allItems[img].status
       IN  nextOn(IF prv # action
                  THEN [s EXCEPT !.allItems = SetStatusOf(@, img, action),
                                 !.history = Append(@, [index |-> s.currentIndex,
                                                        prev |-> prv])]
                  ELSE s)

\* app.js:335  handleGamepadButton(index)
GamepadButton(s, index) ==
  IF index \in 0..3 THEN setStatusOn(s, PadAction(index))
  ELSE IF index = 15 THEN nextOn(s)
  ELSE IF index = 14 THEN prevOn(s)
  ELSE s

\* faulty variant: the sampled state is not stored
PollButtonNoStore(r, buttons, idx) ==
  LET was == r.last[idx]
      is  == buttons[idx]
  IN  IF is /\ ~was
      THEN [r EXCEPT !.s = GamepadButton(@, idx), !.issued = Append(@, idx)]
      ELSE r

\* app.js:324-329  one turn of gp.buttons.forEach
PollButton(r, buttons, idx) ==
  LET was == r.last[idx]
      is  == buttons[idx]
      r1  == IF is /\ ~was
             THEN [r EXCEPT !.s = GamepadButton(@, idx), !.issued = Append(@, idx)]
             ELSE r
  IN  [r1 EXCEPT !.last[idx] = is]

RECURSIVE PollFrom(_, _, _)
PollFrom(r, buttons, k) ==
  IF k > Len(Polled) THEN r
  ELSE PollFrom(PollButton(r, buttons, Polled[k]), buttons, k + 1)

\* app.js:307  gamepadconnected: controller p appears with its buttons in
\* any state; every event requests a frame for pollGamepad
gamepadconnected ==
  \E p \in Pads, bs \in [PolledSet -> BOOLEAN] :
    /\ ~pads[p].connected
    /\ pollLoops < MaxLoops
    /\ pads' = [pads EXCEPT ![p] = [connected |-> TRUE, buttons |-> bs]]
    /\ gamepadIndex' = p
    /\ lastButtonStates' = AllUp
    /\ pollLoops' = pollLoops + 1
    /\ seen' = [seen EXCEPT ![p] = AllUp]
    /\ issued' = <<>>
    /\ uncaught' = FALSE
    /\ lastEvent' = "padOn"
    /\ UNCHANGED <<core, net>>

\* app.js:313  gamepaddisconnected
gamepaddisconnected ==
  \E p \in Pads :
    /\ pads[p].connected
    /\ pads' = [pads EXCEPT ![p] = Unplugged]
    /\ gamepadIndex' = IF gamepadIndex = p THEN NoPad ELSE gamepadIndex
    /\ seen' = [seen EXCEPT ![p] = AllUp]
    /\ issued' = <<>>
    /\ uncaught' = FALSE
    /\ lastEvent' = "padOff"
    /\ UNCHANGED <<core, net, lastButtonStates, pollLoops>>

\* between two frames the user presses or releases a button of a controller
buttonChange ==
  \E p \in Pads, b \in PolledSet :
    /\ pads[p].connected
    /\ pads' = [pads EXCEPT ![p].buttons[b] = ~@]
    /\ issued' = <<>>
    /\ uncaught' = FALSE
    /\ lastEvent' = "button"
    /\ UNCHANGED <<core, net, gamepadIndex, lastButtonStates, pollLoops, seen>>

\* app.js:319  one frame callback of one polling loop
pollGamepad ==
  /\ pollLoops > 0
  /\ LET sampled == gamepadIndex # NoPad /\ pads[gamepadIndex].connected
         r0 == [s |-> [allItems |-> allItems, images |-> images,
                       currentIndex |-> currentIndex, history |-> history],
                last |-> lastButtonStates, issued |-> <<>>]
         r  == IF sampled THEN PollFrom(r0, pads[gamepadIndex].buttons, 1) ELSE r0
     IN  /\ Len(r.s.history) <= MaxHistory
         /\ allItems' = r.s.allItems
         /\ currentIndex' = r.s.currentIndex
         /\ history' = r.s.history
         /\ lastButtonStates' = r.last
         /\ issued' = r.issued
         /\ seen' = IF sampled
                    THEN [seen EXCEPT ![gamepadIndex] = pads[gamepadIndex].buttons]
                    ELSE seen
  /\ uncaught' = FALSE
  /\ lastEvent' = "poll"
  /\ UNCHANGED <<images, filterValue, net, gamepadIndex, pollLoops, pads>>

----------------------------------------------------------------------------
(* Map panel *)
\* a coordinate is null (<<>>) or a number (<<n>>); 0 is a number
NoCoord  == <<>>
Coords   == {NoCoord} \cup {<<n>> : n \in 0..MaxCoord}
GeoImage == [lat : Coords, lon : Coords]     \* lat, lon of a normalized entry
NoImage  == [lat |-> NoCoord, lon |-> NoCoord]
NoPlace  == <<>>                             \* no marker / "GPS: -"
NoMapUi  == [map |-> FALSE, marker |-> NoPlace, mapHidden |-> FALSE,
             messageHidden |-> FALSE, message |-> "", gps |-> NoPlace]

\* app.js:96-112  without the library the panel shows a message and no map
\* is made; with it the map is created once
ensureMap(ui) ==
  IF ~leaflet
  THEN [ok |-> FALSE,
        ui |-> [ui EXCEPT !.messageHidden = FALSE, !.mapHidden = TRUE,
                          !.gps = NoPlace,
                          !.message = "Map library could not be loaded."]]
  ELSE [ok |-> TRUE, ui |-> [ui EXCEPT !.map = TRUE]]

\* faulty variant: one coordinate is enough to take the map branch
updateMapEither(ui, image) ==
  IF image.lat # NoCoord \/ image.lon # NoCoord
  THEN LET e == ensureMap(ui)
       IN  IF ~e.ok THEN e.ui
           ELSE [e.ui EXCEPT !.mapHidden = FALSE, !.messageHidden = TRUE,
                             !.gps = image.lat \o image.lon,
                             !.marker = image.lat \o image.lon]
  ELSE [ui EXCEPT !.messageHidden = FALSE, !.mapHidden = TRUE,
                  !.message = "No location available", !.gps = NoPlace]

\* app.js:114-131  updateMap(image); the marker of the previous image stays
\* on the hidden map when the message branch is taken
updateMap(ui, image) ==
  IF image.lat # NoCoord /\ image.lon # NoCoord
  THEN LET e == ensureMap(ui)
       IN  IF ~e.ok THEN e.ui
           ELSE [e.ui EXCEPT !.mapHidden = FALSE, !.messageHidden = TRUE,
                             !.gps = image.lat \o image.lon,
                             !.marker = image.lat \o image.lon]
  ELSE [ui EXCEPT !.messageHidden = FALSE, !.mapHidden = TRUE,
                  !.message = "No location available", !.gps = NoPlace]

\* app.js:166  render() hands the current item to updateMap
render ==
  \E image \in GeoImage :
    /\ mapUi' = updateMap(mapUi, image)
    /\ shownFor' = image
    /\ uncaught' = FALSE
    /\ lastEvent' = "render"
    /\ UNCHANGED <<core, net, pad, leaflet, delivered, Ghosts>>

----------------------------------------------------------------------------
(* History variables.  They observe a step of a handler (lastEvent' names  *)
(* the command it ran) and never steer it.  A specification records only   *)
(* the ones its properties read; the others stay at their initial value.   *)

\* the setStatus call that ran last on a current item: the action is the
\* item's disposition after the call
ObserveSet ==
  lastSet' =
    IF lastEvent' = "setStatus" /\ Len(images) > 0
    THEN LET item == images[currentIndex + 1]
         IN  [item |-> item,
              action |-> allItems'[item].status,
              before |-> allItems[item].status,
              len |-> Len(history),
              repeat |-> lastSet.item = item
                         /\ lastSet.action = allItems'[item].status]
    ELSE NoCall

\* a change from `all` to a restrictive filter with item X current (stage 1),
\* followed at once by the change back to `all` (stage 2)
ObserveTrip ==
  trip' =
    IF lastEvent' # "filter" THEN NoTrip
    ELSE IF filterValue = "all" /\ Len(images) > 0
         THEN [item |-> images[currentIndex + 1], stage |-> 1,
               kept |-> IndexOf(images', images[currentIndex + 1]) >= 0]
         ELSE IF filterValue' = "all" /\ trip.stage = 1
              THEN [trip EXCEPT !.stage = 2]
              ELSE NoTrip

\* a successful load, then `calls` setStatus calls, then undo calls:
\* `owed` is the number of setStatus calls not yet matched by an undo call
ObserveLaw ==
  law' =
    IF lastEvent' = "loadOk" THEN [phase |-> "set", calls |-> 0, owed |-> 0]
    ELSE IF lastEvent' = "setStatus" /\ law.phase = "set" /\ law.calls < MaxCalls
         THEN [phase |-> "set", calls |-> law.calls + 1, owed |-> law.owed + 1]
    ELSE IF lastEvent' = "undo" /\ law.phase \in {"set", "undo"} /\ law.owed > 0
         THEN [law EXCEPT !.phase = "undo", !.owed = law.owed - 1]
    ELSE LawOff

\* owner[k] is the item whose change pushed history[k]
ObserveOwner ==
  owner' =
    IF Len(history') > Len(history)
    THEN Append(owner, images[currentIndex + 1])
    ELSE SubSeq(owner, 1, Len(history'))

\* what the command that ran last found: cursor, stack length, view length
ObservePre ==
  pre' = [cursor |-> currentIndex, len |-> Len(history), view |-> Len(images)]

\* the handlers of pointer, keyboard, filter and requests never touch the
\* controller state; the map panel is written by render and read by no command
Observe     == ObserveSet /\ ObserveTrip /\ ObserveLaw /\ UNCHANGED <<owner, pre, pad, show, delivered>>
ObserveUndo == ObserveOwner /\ UNCHANGED <<lastSet, trip, law, pre, pad, show, delivered>>
ObserveNone == UNCHANGED <<lastSet, trip, law, owner, pre, pad, show, delivered>>
ObserveStep == ObservePre /\ UNCHANGED <<lastSet, trip, law, owner, pad, show, delivered>>

----------------------------------------------------------------------------
\* the page after the script has run, with the map library loaded or not
Loaded(lib) ==
  /\ allItems = <<>>
  /\ images = <<>>
  /\ currentIndex = 0
  /\ history = <<>>
  /\ filterValue \in Modes
  /\ exportDisabled = FALSE
  /\ saveReq = NoReq
  /\ rebuildDisabled = FALSE
  /\ rebuildStage = "idle"
  /\ startLoad = TRUE
  /\ uncaught = FALSE
  /\ lastEvent = "start"
  /\ lastSet = NoCall
  /\ trip = NoTrip
  /\ law = LawOff
  /\ owner = <<>>
  /\ pre = NoPre
  /\ gamepadIndex = NoPad
  /\ lastButtonStates = AllUp
  /\ pollLoops = 0
  /\ pads = [p \in Pads |-> Unplugged]
  /\ seen = [p \in Pads |-> AllUp]
  /\ issued = <<>>
  /\ leaflet = lib
  /\ mapUi = NoMapUi
  /\ shownFor = NoImage
  /\ delivered = <<>>

Init == Loaded(TRUE)

\* The triage session: the startup load, every input source, the filter.
Next ==
  \/ startupLoadResponse /\ Observe
  \/ decisionClick /\ Observe
  \/ keydown /\ Observe
  \/ handleGamepadButton /\ Observe
  \/ filterChange /\ Observe

Spec == Init /\ [][Next]_vars

\* The same session, recording the owner of every undo entry.
NextUndo ==
  \/ startupLoadResponse /\ ObserveUndo
  \/ decisionClick /\ ObserveUndo
  \/ keydown /\ ObserveUndo
  \/ handleGamepadButton /\ ObserveUndo
  \/ filterChange /\ ObserveUndo

SpecUndo == Init /\ [][NextUndo]_vars

\* The session with export requests in flight.
NextExport ==
  \/ startupLoadResponse /\ ObserveNone
  \/ decisionClick /\ ObserveNone
  \/ keydown /\ ObserveNone
  \/ handleGamepadButton /\ ObserveNone
  \/ filterChange /\ ObserveNone
  \/ exportClick /\ ObserveNone
  \/ exportResponse /\ ObserveNone

SpecExport == Init /\ [][NextExport]_vars

\* The session with manifest rebuild and reload.
NextReload ==
  \/ startupLoadResponse /\ ObserveNone
  \/ decisionClick /\ ObserveNone
  \/ keydown /\ ObserveNone
  \/ handleGamepadButton /\ ObserveNone
  \/ filterChange /\ ObserveNone
  \/ rebuildClick /\ ObserveNone
  \/ rebuildResponse /\ ObserveNone
  \/ rebuildLoadResponse /\ ObserveNone

SpecReload == Init /\ [][NextReload]_vars

\* The session, recording what each command found.
NextStep ==
  \/ startupLoadResponse /\ ObserveStep
  \/ decisionClick /\ ObserveStep
  \/ keydown /\ ObserveStep
  \/ handleGamepadButton /\ ObserveStep
  \/ filterChange /\ ObserveStep

SpecStep == Init /\ [][NextStep]_vars

\* The session with export, rebuild and load requests in flight together,
\* under the filter that is selected when the page loads.
NextBusy ==
  \/ startupLoadResponse /\ ObserveNone
  \/ decisionClick /\ ObserveNone
  \/ keydown /\ ObserveNone
  \/ handleGamepadButton /\ ObserveNone
  \/ exportClick /\ ObserveNone
  \/ exportResponse /\ ObserveNone
  \/ rebuildClick /\ ObserveNone
  \/ rebuildResponse /\ ObserveNone
  \/ rebuildLoadResponse /\ ObserveNone

SpecBusy == Init /\ [][NextBusy]_vars

\* The session driven by polled controllers.

NextPad ==
  \/ startupLoadResponse /\ ObserveNone
  \/ filterChange /\ ObserveNone
  \/ gamepadconnected /\ UNCHANGED <<Ghosts, show, delivered>>
  \/ gamepaddisconnected /\ UNCHANGED <<Ghosts, show, delivered>>
  \/ buttonChange /\ UNCHANGED <<Ghosts, show, delivered>>
  \/ pollGamepad /\ UNCHANGED <<Ghosts, show, delivered>>

SpecPad == Init /\ [][NextPad]_vars

\* The master list and its views, loaded from a manifest in any order and
\* with any type values.
NextSort ==
  \/ startupLoadShuffled /\ UNCHANGED <<Ghosts, pad, show>>
  \/ filterChange /\ ObserveNone

SpecSort == Init /\ [][NextSort]_vars

\* The map panel over the renderings of items with any lat and lon, on a
\* page that got the map library or did not.
InitMap == \E lib \in BOOLEAN : Loaded(lib)

NextMap == render

SpecMap == InitMap /\ [][NextMap]_vars

----------------------------------------------------------------------------
(* Properties *)
AllUndecided(items) == \A i \in 1..Len(items) : items[i].status = Null
Current == At(images, currentIndex)

\* C1  Undo law: from a freshly loaded session, after n setStatus calls and
\* nothing else, n undo calls leave every item of the master list undecided.
UndoLaw ==
  (law.phase = "undo" /\ law.owed = 0) => AllUndecided(allItems)

\* n = MaxCalls calls that changed two dispositions, all undone again
UndoLawWitness ==
  /\ law.phase = "undo" /\ law.owed = 0 /\ law.calls = 2
  /\ lastEvent = "undo"
  /\ Len(images) = 2
  /\ AllUndecided(allItems)

\* C2  An undo on a non-empty stack restores the disposition of the item
\* whose change pushed the popped entry, to the recorded previous value, and
\* leaves every other item alone; the cursor is on that item when the active
\* view contains it.
UndoRestoresOwner ==
  [][(lastEvent' = "undo" /\ history # <<>>) =>
       LET item == owner[Len(owner)]
           last == history[Len(history)]
       IN  /\ allItems' = SetStatusOf(allItems, item, last.prev)
           /\ IndexOf(images', item) >= 0 => At(images', currentIndex') = item]_vars

\* C3  The undo chain is lossless: popping the whole stack brings every item
\* back to undecided; with an empty stack every item is undecided.
RECURSIVE PopAll(_, _, _, _)
PopAll(items, view, cur, h) ==
  IF h = <<>> THEN items
  ELSE LET r == UndoStep(items, view, cur, h)
       IN  PopAll(r.allItems, view, r.currentIndex, r.history)

UndoChainLossless ==
  /\ Len(images) > 0 => AllUndecided(PopAll(allItems, images, currentIndex, history))
  /\ history = <<>> => AllUndecided(allItems)

\* C4  A setStatus call on a current item pushes exactly one entry
\* (cursor index, previous disposition) and applies the action when the
\* action differs from the item's disposition, and pushes nothing when it is
\* the same; two consecutive identical calls on one item leave exactly one
\* entry more than before the first of them.
SetStatusPushesOnce ==
  [][(lastEvent' = "setStatus" /\ lastSet'.item # 0) =>
       LET c == lastSet'
       IN  /\ IF c.before # c.action
              THEN /\ history' = Append(history, [index |-> currentIndex, prev |-> c.before])
                   /\ allItems' = SetStatusOf(allItems, c.item, c.action)
              ELSE /\ history' = history
                   /\ allItems' = allItems
           /\ (c.repeat /\ lastSet.before # c.action) =>
                 /\ history' = history
                 /\ Len(history') = lastSet.len + 1]_vars

\* the second of two identical calls ran on the last item and pushed nothing
SetStatusPushesOnceWitness ==
  /\ lastEvent = "setStatus"
  /\ lastSet.repeat /\ lastSet.before = lastSet.action
  /\ Len(history) = 1
  /\ Current = lastSet.item
  /\ allItems[lastSet.item].status = lastSet.action

\* C5  Whenever the active view is non-empty the cursor is an index of it.
CursorInRange ==
  Len(images) > 0 => (0 <= currentIndex /\ currentIndex <= Len(images) - 1)

\* an undo whose entry lies beyond the end of a view that a filter shrank
CursorInRangeWitness ==
  /\ lastEvent = "undo" /\ uncaught
  /\ Len(images) = 1 /\ Len(allItems) = 2
  /\ currentIndex = 0

\* C6 as stated  With the cursor on item X under `all`, switching to `image`
\* or `video` and straight back to `all` leaves the cursor on X, also when X
\* is not part of the restrictive view.
FilterRoundTrip ==
  trip.stage = 2 => Current = trip.item

\* C6 as amended  ... leaves the cursor on X whenever X is part of the
\* restrictive view.
FilterRoundTripKept ==
  (trip.stage = 2 /\ trip.kept) => Current = trip.item

\* a round trip that found X again at the second position of `all`
FilterRoundTripWitness ==
  /\ trip.stage = 2 /\ trip.kept
  /\ lastEvent = "filter" /\ filterValue = "all"
  /\ currentIndex = 1 /\ Current = trip.item

\* C7  A filter change to `mode` makes the view exactly the items of the
\* master list of that kind, in master order; the cursor is on the item that
\* was current before when the new view contains it, and otherwise 0 when
\* the new view is non-empty.
FilterChangeView ==
  [][(lastEvent' = "filter") =>
       LET mode == filterValue'
           Wanted(i) == \/ mode = "all"
                        \/ mode = "image" /\ allItems[i].type = "image"
                        \/ mode = "video" /\ allItems[i].type = "video"
           p == Current
       IN  /\ allItems' = allItems
           /\ \A k \in 1..Len(images') :
                 images'[k] \in 1..Len(allItems) /\ Wanted(images'[k])
           /\ \A i \in 1..Len(allItems) :
                 Wanted(i) => \E k \in 1..Len(images') : images'[k] = i
           /\ \A k \in 1..(Len(images') - 1) : images'[k] < images'[k + 1]
           /\ IF p # Undefined /\ \E k \in 1..Len(images') : images'[k] = p
              THEN At(images', currentIndex') = p
              ELSE Len(images') > 0 => currentIndex' = 0]_vars

\* a change to `all` that kept the current item, found at the second position
FilterChangeViewWitness ==
  /\ lastEvent = "filter" /\ filterValue = "all"
  /\ Len(images) = 2 /\ currentIndex = 1
  /\ allItems[1].type # allItems[2].type

\* C8  An accepted click on the export control builds one decision record
\* per item of the master list, in master order, index = position, whatever
\* filter is active, also when the active view is empty.
ExportCoversMaster ==
  [][(lastEvent' = "export" /\ Len(allItems) > 0) =>
       /\ saveReq'.pending
       /\ Len(saveReq'.decisions) = Len(allItems)
       /\ \A i \in 1..Len(saveReq'.decisions) :
             /\ saveReq'.decisions[i].index = i - 1
             /\ saveReq'.decisions[i].name = allItems[i].name]_vars

\* C9  Every record of an export request carries the disposition its item
\* has when the export is triggered, and the request holds as many non-null
\* statuses as the master list has decided items.
ItemNamed(n) == CHOOSE i \in 1..Len(allItems) : allItems[i].name = n

ExportCarriesStatus ==
  [][(lastEvent' = "export" /\ saveReq'.pending) =>
       LET d == saveReq'.decisions
       IN  /\ \A k \in 1..Len(d) :
                 /\ \E i \in 1..Len(allItems) : allItems[i].name = d[k].name
                 /\ d[k].status = allItems[ItemNamed(d[k].name)].status
           /\ Cardinality({k \in 1..Len(d) : d[k].status # Null})
                = Cardinality({i \in 1..Len(allItems) : allItems[i].status # Null})]_vars

\* a pending export holding the disposition of an item outside the view
ExportCarriesStatusWitness ==
  /\ lastEvent = "export" /\ saveReq.pending
  /\ Len(images) = 1 /\ Len(allItems) = 2
  /\ \E i \in 1..2 :
        /\ IndexOf(images, i) < 0
        /\ allItems[i].status # Null
        /\ saveReq.decisions[i].status = allItems[i].status

\* C10  A failed export request leaves master list, view, cursor,
\* dispositions and undo stack as they were, and re-enables the control.
ExportFailureKeepsSession ==
  [][(lastEvent' = "exportFail") =>
       /\ UNCHANGED <<allItems, images, currentIndex, history>>
       /\ ~exportDisabled'
       /\ ~saveReq'.pending]_vars

\* a failure with decisions and undo entries in memory, control enabled again
ExportFailureWitness ==
  /\ lastEvent = "exportFail"
  /\ ~exportDisabled
  /\ history # <<>>
  /\ ~AllUndecided(allItems)
  /\ Len(images) > 0

\* C11  A setStatus call on a current item, whether it changed the
\* disposition or not, leaves the cursor at min(old cursor + 1, len(view) - 1)
\* and the view as it was: one step forward, or still on the last position,
\* never back at 0.
Min(a, b) == IF a <= b THEN a ELSE b

SetStatusAdvances ==
  [][(lastEvent' = "setStatus" /\ Len(images) > 0) =>
       /\ currentIndex' = Min(currentIndex + 1, Len(images) - 1)
       /\ images' = images]_vars

\* a call on the last of two items that found the disposition already set
SetStatusAdvancesWitness ==
  /\ lastEvent = "setStatus"
  /\ pre.view = 2 /\ pre.cursor = 1 /\ currentIndex = 1
  /\ Len(history) = pre.len /\ ~AllUndecided(allItems)

\* C12  next and prev change nothing but the cursor, which moves by exactly
\* one inside the view: next stays on the last position, prev stays on
\* position 0, neither wraps around.
NextPrevClamped ==
  [][(lastEvent' \in {"next", "prev"}) =>
       LET last == Len(images) - 1
       IN  /\ UNCHANGED <<allItems, images, history>>
           /\ lastEvent' = "next" =>
                 IF Len(images) > 0 /\ currentIndex # last
                 THEN currentIndex' = currentIndex + 1
                 ELSE currentIndex' = currentIndex
           /\ lastEvent' = "prev" =>
                 IF currentIndex # 0
                 THEN currentIndex' = currentIndex - 1
                 ELSE currentIndex' = currentIndex
           /\ Len(images) > 0 => currentIndex' \in 0..last]_vars

\* next on the last of two items left the cursor there
NextPrevClampedWitness ==
  /\ lastEvent = "next"
  /\ pre.view = 2 /\ pre.cursor = 1 /\ currentIndex = 1

\* C13  undo on an empty stack changes nothing: dispositions, cursor, view
\* and stack are as before and no error is raised.
UndoEmptyNoop ==
  [][(lastEvent' = "undo" /\ history = <<>>) =>
       /\ UNCHANGED <<allItems, images, currentIndex, history>>
       /\ ~uncaught']_vars

\* undo ran on an empty stack with the cursor on the second item
UndoEmptyNoopWitness ==
  /\ lastEvent = "undo" /\ pre.len = 0
  /\ history = <<>> /\ ~uncaught
  /\ pre.cursor = 1 /\ currentIndex = 1 /\ Len(images) = 2

\* C14  With an empty view no command raises an error, changes a
\* disposition or drops an undo entry: setStatus, next, prev, the undo key
\* and a filter change all complete.
EmptyViewIsValid ==
  [][(Len(images) = 0 /\
      lastEvent' \in {"setStatus", "next", "prev", "undo", "keyIgnored", "filter"}) =>
       /\ ~uncaught'
       /\ allItems' = allItems
       /\ history' = history]_vars

\* a key pressed on an empty view with decisions and undo entries in memory
EmptyViewIsValidWitness ==
  /\ lastEvent = "keyIgnored"
  /\ pre.view = 0 /\ pre.len > 0
  /\ Len(history) = pre.len
  /\ ~AllUndecided(allItems)

\* C15  At most one rebuild request of the session is in flight: a trigger
\* is accepted only while none is pending, the control is disabled exactly
\* while one is pending, and it is enabled again once the pending rebuild
\* has succeeded or failed.
OneRebuildInFlight ==
  [][/\ lastEvent' = "rebuild" => (rebuildStage = "idle" /\ rebuildStage' = "rebuild")
     /\ rebuildDisabled' <=> rebuildStage' # "idle"
     /\ lastEvent' = "rebuildFail" => ~rebuildDisabled'
     /\ (rebuildStage = "load" /\ rebuildStage' = "idle") => ~rebuildDisabled']_vars

\* a rebuild failed with a session in memory and the control is enabled again
OneRebuildInFlightWitness ==
  /\ lastEvent = "rebuildFail"
  /\ rebuildStage = "idle" /\ ~rebuildDisabled
  /\ ENABLED rebuildClick
  /\ history # <<>>

\* C16  A sample of the polling loop calls a command for exactly the
\* buttons of the polled controller that are pressed now and were not
\* pressed at the previous sample of that controller, once each and in button
\* order, however many polling loops the connect events have started; a
\* sample that finds no new press leaves the session as it was.
PollOncePerPress ==
  [][(lastEvent' = "poll") =>
       LET g == gamepadIndex
           NewPress(b) == /\ g # NoPad
                          /\ pads[g].connected
                          /\ pads[g].buttons[b]
                          /\ ~seen[g][b]
       IN  /\ issued' = SelectSeq(Polled, NewPress)
           /\ issued' = <<>> => UNCHANGED core]_vars

\* with two polling loops running, a sample found button 0 still held after
\* its command and called nothing
PollOncePerPressWitness ==
  /\ lastEvent = "poll" /\ pollLoops = 2
  /\ gamepadIndex # NoPad
  /\ pads[gamepadIndex].buttons[0] /\ lastButtonStates[0]
  /\ issued = <<>>
  /\ Len(history) = 1 /\ currentIndex = 1

\* C17  While an export, a rebuild or a manifest load is pending, the
\* handlers of keyboard, pointer, controller and filter still run: none of
\* them is held back by the pending request (the pointer only by the bound
\* on the undo stack).
Busy == saveReq.pending \/ rebuildStage # "idle" \/ startLoad

InputNotBlocked ==
  Busy => /\ ENABLED keydown
          /\ ENABLED handleGamepadButton
          /\ ENABLED filterChange
          /\ Len(history) < MaxHistory => ENABLED decisionClick

\* setStatus ran on the second item while an export and a rebuild were
\* pending; the export body still holds the disposition of before
InputNotBlockedWitness ==
  /\ saveReq.pending /\ rebuildStage = "rebuild"
  /\ lastEvent = "setStatus"
  /\ Len(allItems) = 2
  /\ saveReq.decisions[2].status = Null
  /\ allItems[2].status # Null

\* C18 as stated  After updateMap ran for an item, the panel shows a
\* location (visible map, marker and coordinates of the item) iff both lat
\* and lon are non-null; an item with exactly one of them is displayed
\* exactly as an item with none (message, hidden map, no new marker).
BothCoords(image) == image.lat # NoCoord /\ image.lon # NoCoord
OneCoord(image)   == (image.lat # NoCoord) # (image.lon # NoCoord)

LocationShown(ui, image) ==
  /\ ~ui.mapHidden /\ ui.messageHidden
  /\ ui.marker = image.lat \o image.lon
  /\ ui.gps = image.lat \o image.lon

ShownAsNone(before, after, image) ==
  OneCoord(image) =>
    /\ after.mapHidden /\ ~after.messageHidden
    /\ after.gps = NoPlace /\ after.marker = before.marker
    /\ after = updateMap(before, NoImage)

PartialGps ==
  [][(lastEvent' = "render") =>
       /\ LocationShown(mapUi', shownFor') <=> BothCoords(shownFor')
       /\ ShownAsNone(mapUi, mapUi', shownFor')]_vars

\* C18 as amended  ... iff both lat and lon are non-null and the map
\* library is loaded ...
PartialGpsLoaded ==
  [][(lastEvent' = "render") =>
       /\ LocationShown(mapUi', shownFor') <=> (BothCoords(shownFor') /\ leaflet)
       /\ ShownAsNone(mapUi, mapUi', shownFor')]_vars

\* an item with lat 0 and no lon got the message; the marker of an earlier
\* item is still on the hidden map
PartialGpsWitness ==
  /\ lastEvent = "render" /\ leaflet
  /\ shownFor = [lat |-> <<0>>, lon |-> NoCoord]
  /\ mapUi.mapHidden /\ ~mapUi.messageHidden
  /\ mapUi.message = "No location available"
  /\ mapUi.marker # NoPlace

\* C19  After a successful load the master list holds the delivered entries
\* ordered by dateTaken descending (no date last), entries of equal date by
\* filename ascending, in whatever order the manifest delivered them.
Before(a, b) ==
  \/ a.dateTaken > b.dateTaken
  \/ a.dateTaken = b.dateTaken /\ a.name < b.name

MasterListOrdered ==
  (lastEvent = "loadOk") =>
     /\ Len(allItems) = Len(delivered)
     /\ \A i \in 1..Len(delivered) :
           \E k \in 1..Len(allItems) : allItems[k].name = delivered[i].filename
     /\ \A k \in 1..(Len(allItems) - 1) : Before(allItems[k], allItems[k + 1])

\* C20  In every reachable state the view is made of items of the current
\* master list, each at most once and in master order, all of the kind the
\* filter selects; so the item a command reaches through the view is the
\* one the master list and the export hold.
ViewOfMaster ==
  /\ \A k \in 1..Len(images) :
        /\ images[k] \in 1..Len(allItems)
        /\ filterValue = "video" => allItems[images[k]].type = "video"
        /\ filterValue = "image" => allItems[images[k]].type # "video"
  /\ \A k \in 1..(Len(images) - 1) : images[k] < images[k + 1]

\* after a load, a disposition set through a view that holds only the
\* second item of the master list
ViewOfMasterWitness ==
  /\ lastEvent = "setStatus" /\ ~rebuildDisabled /\ ~startLoad
  /\ Len(allItems) = 2 /\ images = <<2>>
  /\ allItems[2].status # Null /\ allItems[1].status = Null
  /\ Payload(allItems)[2].status = allItems[images[1]].status

\* C21  next, prev and a filter change leave the master list, with every
\* disposition in it, and the undo stack exactly as they were.
NavigationKeepsDecisions ==
  [][(lastEvent' \in {"next", "prev", "filter"}) =>
       /\ Len(allItems') = Len(allItems)
       /\ \A i \in 1..Len(allItems) : allItems'[i] = allItems[i]
       /\ Len(history') = Len(history)
       /\ \A k \in 1..Len(history) : history'[k] = history[k]]_vars

\* a filter change that moved the cursor, with a decision and its undo
\* entry in memory
NavigationKeepsDecisionsWitness ==
  /\ lastEvent = "filter"
  /\ pre.len = 1 /\ Len(history) = 1
  /\ pre.cursor = 1 /\ currentIndex = 0
  /\ ~AllUndecided(allItems)

\* C22  When the startup load is still pending after a newer load (the one
\* that follows a rebuild) has filled the session, the late response of the
\* startup load leaves the master list, the dispositions and the undo stack
\* as they are.
LateLoadIgnored ==
  [][(startLoad /\ ~startLoad' /\ allItems # <<>>) =>
       /\ allItems' = allItems
       /\ history' = history]_vars

\* C23  A failed rebuild request and a failed manifest load leave master
\* list, view, cursor, dispositions and undo stack as they were; the items
\* of the master list are replaced by a successful load and by nothing
\* else, and after it every item is undecided, the undo stack is empty and
\* the cursor is 0, on the first item of the view if there is one.
Identity(items) ==
  [i \in 1..Len(items) |->
     <<items[i].name, items[i].type, items[i].dateTaken>>]

FailureKeepsSession ==
  [][/\ lastEvent' \in {"loadFail", "rebuildFail"} =>
          UNCHANGED <<allItems, images, currentIndex, history>>
     /\ lastEvent' # "loadOk" => Identity(allItems') = Identity(allItems)
     /\ lastEvent' = "loadOk" =>
          /\ AllUndecided(allItems')
          /\ history' = <<>>
          /\ currentIndex' = 0]_vars

\* a manifest load failed with a decision on every item and two undo entries
\* in memory, which are still there
FailureKeepsSessionWitness ==
  /\ lastEvent = "loadFail" /\ ~startLoad
  /\ rebuildStage = "idle" /\ ~rebuildDisabled
  /\ Len(history) = 2 /\ currentIndex = 1
  /\ \A i \in 1..Len(allItems) : allItems[i].status # Null

\* C24  The views of `image` and of `video` partition the master list: every
\* item, whatever type the manifest gave it, is in exactly one of the two,
\* and the view of `all` holds every item exactly once; the active view is
\* the one of the selected filter.
InView(mode, i) ==
  Cardinality({k \in 1..Len(FilterView(mode, allItems)) :
                 FilterView(mode, allItems)[k] = i})

ViewsPartition ==
  /\ \A i \in 1..Len(allItems) :
        /\ InView("image", i) + InView("video", i) = 1
        /\ InView("all", i) = 1
        /\ InView("video", i) = 1 <=> allItems[i].type = "video"
  /\ Len(FilterView("all", allItems)) = Len(allItems)
  /\ Len(FilterView("image", allItems)) + Len(FilterView("video", allItems))
       = Len(allItems)
  /\ images = FilterView(filterValue, allItems)

\* a manifest with an entry of no type and one of an unknown type: both are
\* in the `image` view, which was selected by a filter change
ViewsPartitionWitness ==
  /\ lastEvent = "filter" /\ filterValue = "image"
  /\ Len(delivered) = 2
  /\ delivered[1].type = "" /\ delivered[2].type = "raw"
  /\ Len(images) = 2
  /\ \E k \in 1..2 : allItems[images[k]].type = "raw"
  /\ \E k \in 1..2 : allItems[images[k]].type = "image"

====
